---- MODULE Spec2Model ----
(***************************************************************************)
(* Model of src/core/login.rs: WxLogin::handle_login and                   *)
(* WxLogin::authenticate.  Strings are sequences of one-character strings, *)
(* so that split(":") and join(":") are computed on characters.            *)
(***************************************************************************)
EXTENDS Integers, Sequences, FiniteSets, Bags, TLC

(* ------------------------------------------------------------------ *)
(* Bounds of the model                                                 *)
(* ------------------------------------------------------------------ *)

\* The clock advances at most this many ticks.
MaxTicks == 2

\* At most this many handle_login calls are suspended at an await at once.
MaxPending == 1

(* ------------------------------------------------------------------ *)
(* State                                                               *)
(* ------------------------------------------------------------------ *)

VARIABLES
    cfg,       \* WxLogin.cfg: the shared configuration
    now,       \* the clock, in milliseconds
    inflight,  \* the handle_login calls suspended at an await
    held,      \* the client's session, from the last successful login
    last,      \* the call that returned last: arguments, result, calls made
    pinned,    \* the first authenticate that succeeded without signature
    alone      \* the configuration and the results of calls run alone,
               \* before any other call

vars == << cfg, now, inflight, held, last, pinned, alone >>

(* ------------------------------------------------------------------ *)
(* Strings                                                             *)
(* ------------------------------------------------------------------ *)

COLON == ":"

NoColon(s) == \A i \in 1..Len(s) : s[i] # COLON

\* str::split(":"): the fields between the delimiters; n delimiters give
\* n + 1 fields, empty fields included.
RECURSIVE Split(_)
Split(s) ==
    IF NoColon(s) THEN <<s>>
    ELSE LET i == CHOOSE k \in 1..Len(s) :
                     s[k] = COLON /\ \A j \in 1..(k - 1) : s[j] # COLON
         IN  <<SubSeq(s, 1, i - 1)>> \o Split(SubSeq(s, i + 1, Len(s)))

\* Itertools::next_tuple for a 4-tuple: the first four items of the
\* iterator, or None (here <<>>) when it yields fewer than four.  Items
\* after the fourth stay in the iterator and are dropped.
NextTuple4(fields) ==
    IF Len(fields) >= 4 THEN SubSeq(fields, 1, 4) ELSE <<>>

\* [a, b, c, d].join(":")
Join4(a, b, c, d) == a \o <<COLON>> \o b \o <<COLON>> \o c \o <<COLON>> \o d

ST1 == <<"S", "T", "1">>
SG1 == <<"S", "G", "1">>

(* ------------------------------------------------------------------ *)
(* BASE64 (standard alphabet, padded)                                  *)
(* ------------------------------------------------------------------ *)

B64Alphabet ==
    << "A","B","C","D","E","F","G","H","I","J","K","L","M","N","O","P",
       "Q","R","S","T","U","V","W","X","Y","Z","a","b","c","d","e","f",
       "g","h","i","j","k","l","m","n","o","p","q","r","s","t","u","v",
       "w","x","y","z","0","1","2","3","4","5","6","7","8","9","+","/" >>

PAD == "="

IsB64Char(c) == \E i \in 1..64 : B64Alphabet[i] = c

B64Val(c) == (CHOOSE i \in 1..64 : B64Alphabet[i] = c) - 1

\* One group of four characters without padding: three bytes.
B64Group(g) ==
    LET n == B64Val(g[1]) * 262144 + B64Val(g[2]) * 4096
             + B64Val(g[3]) * 64 + B64Val(g[4])
    IN  << n \div 65536, (n \div 256) % 256, n % 256 >>

\* The last group, which may end in one or two padding characters.
B64Tail(g) ==
    IF g[4] # PAD THEN B64Group(g)
    ELSE IF g[3] # PAD
         THEN LET n == B64Val(g[1]) * 4096 + B64Val(g[2]) * 64 + B64Val(g[3])
              IN  << n \div 1024, (n \div 4) % 256 >>
         ELSE LET n == B64Val(g[1]) * 64 + B64Val(g[2])
              IN  << n \div 16 >>

\* Whether the text is well-formed: a multiple of four characters, all of
\* the alphabet, padding only as the last one or two characters, and no
\* stray bits under the padding.
B64WellFormed(t) ==
    /\ Len(t) % 4 = 0
    /\ \A i \in 1..Len(t) :
          \/ IsB64Char(t[i])
          \/ t[i] = PAD /\ i >= Len(t) - 1 /\ i >= 3 /\ t[Len(t)] = PAD
    /\ Len(t) > 0 /\ t[Len(t)] = PAD =>
          IF t[Len(t) - 1] = PAD
          THEN B64Val(t[Len(t) - 2]) % 16 = 0
          ELSE B64Val(t[Len(t) - 1]) % 4 = 0

RECURSIVE B64Bytes(_)
B64Bytes(t) ==
    IF Len(t) = 0 THEN <<>>
    ELSE IF Len(t) = 4 THEN B64Tail(t)
    ELSE B64Group(SubSeq(t, 1, 4)) \o B64Bytes(SubSeq(t, 5, Len(t)))

\* BASE64.from_text: Ok(bytes) or Err.
from_text(t) ==
    IF B64WellFormed(t)
    THEN [ok |-> TRUE, val |-> B64Bytes(t)]
    ELSE [ok |-> FALSE, err |-> <<"base64 decode error">>]

\* BASE64.to_text
RECURSIVE to_text(_)
to_text(b) ==
    IF Len(b) = 0 THEN <<>>
    ELSE IF Len(b) = 1
    THEN << B64Alphabet[(b[1] \div 4) + 1],
            B64Alphabet[(b[1] % 4) * 16 + 1], PAD, PAD >>
    ELSE IF Len(b) = 2
    THEN << B64Alphabet[(b[1] \div 4) + 1],
            B64Alphabet[(b[1] % 4) * 16 + (b[2] \div 16) + 1],
            B64Alphabet[(b[2] % 16) * 4 + 1], PAD >>
    ELSE << B64Alphabet[(b[1] \div 4) + 1],
            B64Alphabet[(b[1] % 4) * 16 + (b[2] \div 16) + 1],
            B64Alphabet[(b[2] % 16) * 4 + (b[3] \div 64) + 1],
            B64Alphabet[(b[3] % 64) + 1] >>
         \o to_text(SubSeq(b, 4, Len(b)))

(* ------------------------------------------------------------------ *)
(* Decimal text                                                        *)
(* ------------------------------------------------------------------ *)

Digits == << "0","1","2","3","4","5","6","7","8","9" >>

IsDigit(c) == \E i \in 1..10 : Digits[i] = c

DigitVal(c) == (CHOOSE i \in 1..10 : Digits[i] = c) - 1

\* Display of an unsigned integer (format!("{}", n)).
RECURSIVE ToDecimal(_)
ToDecimal(n) ==
    IF n < 10 THEN << Digits[n + 1] >>
    ELSE ToDecimal(n \div 10) \o << Digits[(n % 10) + 1] >>

\* str::parse::<u64>() on text that is known to be all digits.
RECURSIVE DecimalValue(_)
DecimalValue(t) ==
    IF Len(t) = 0 THEN 0
    ELSE DecimalValue(SubSeq(t, 1, Len(t) - 1)) * 10 + DigitVal(t[Len(t)])

IsDecimal(t) == Len(t) > 0 /\ \A i \in 1..Len(t) : IsDigit(t[i])

(* ------------------------------------------------------------------ *)
(* Results                                                             *)
(* ------------------------------------------------------------------ *)

Ok(v) == [ok |-> TRUE, val |-> v]

Err(e) == [ok |-> FALSE, err |-> e]

\* A function's outcome together with the collaborator calls it made, in
\* the order it made them.
Ran(res, calls) == [res |-> res, calls |-> calls]

\* The same, for a call that reads the clock when (and only when) it
\* reaches Authority::auth_client_sig: clock is <<>> or <<the time read>>.
RanAt(res, calls, clock) == [res |-> res, calls |-> calls, clock |-> clock]

(* ------------------------------------------------------------------ *)
(* Constants of login.rs                                               *)
(* ------------------------------------------------------------------ *)

\* LOGIN_FAIL_MSG (the source's text is the Chinese for "login
\* verification failed").
LOGIN_FAIL_MSG == "LOGIN_FAIL_MSG"

\* AUTH_FAIL_MSG: declared, and used nowhere in login.rs.
AUTH_FAIL_MSG == "AUTH_FAIL_MSG"

WX_JSCODE2SESSION_URL == "https://api.weixin.qq.com/sns/jscode2session"

\* The length of the session key array, [u8; 16].
SESSION_KEY_LEN == 16

\* Milliseconds in Duration::from_secs(1).
MS_PER_SEC == 1000

(* ------------------------------------------------------------------ *)
(* Authority (crate::core::security), by its contract                  *)
(* ------------------------------------------------------------------ *)

\* Text with every delimiter replaced: the values Authority produces hold
\* no ":".
Mask(s) == [i \in 1..Len(s) |-> IF s[i] = COLON THEN "_" ELSE s[i]]

RECURSIVE SumBytes(_)
SumBytes(b) == IF Len(b) = 0 THEN 0 ELSE b[1] + SumBytes(Tail(b))

\* The one character by which a session token carries the provider's
\* session key.
KeyTag(key) == B64Alphabet[(SumBytes(key) % 64) + 1]

\* The client-session key derived for a key tag.
ClientSessKey(tag) == << (B64Val(tag) * 3 + 1) % 256, 66 >>

\* What binds a session token to the application and the user.
TokenPrefix(app_info, openid) ==
    <<"t">> \o Mask(app_info.secret) \o <<".">> \o Mask(openid) \o <<".">>

\* Authority::make_client_session(openid, session_key): the opaque token
\* component and the session key handed to the client.
make_client_session(app_info, openid, session_key) ==
    [ sess_token |-> TokenPrefix(app_info, openid) \o << KeyTag(session_key) >>,
      sess_key   |-> to_text(ClientSessKey(KeyTag(session_key))) ]

\* Authority::auth_client_session(openid, token_str): the re-derived
\* secret when the token is one make_client_session issues for this
\* application and openid, an error otherwise.
auth_client_session(app_info, openid, token_str) ==
    LET p == TokenPrefix(app_info, openid)
    IN  IF /\ Len(token_str) = Len(p) + 1
           /\ SubSeq(token_str, 1, Len(p)) = p
           /\ IsB64Char(token_str[Len(token_str)])
        THEN Ok([client_sess_key |-> ClientSessKey(token_str[Len(token_str)])])
        ELSE Err(<<"session token verify fail">>)

\* The signature a client holding key_text computes over a request.
Sign(key_text, uri, ts_ms_str, nonce_str) ==
    <<"m">> \o key_text \o <<".">> \o Mask(uri) \o <<".">> \o ts_ms_str
            \o <<".">> \o nonce_str

\* The replay predicate authenticate hands to auth_client_sig:
\* |dur, _nonce| dur <= Duration::from_secs(self.cfg.sig_valid_secs),
\* with dur in milliseconds.
\* (variant: a nonce is refused once the call before was accepted with it)
SigPred_fresh_nonce(c, dur, nonce) ==
    /\ dur <= c.sig_valid_secs * MS_PER_SEC
    /\ ~( /\ last.op = "auth" /\ last.res.ok /\ last.sig.ok
          /\ NextTuple4(Split(last.sig.val)) # <<>>
          /\ NextTuple4(Split(last.sig.val))[3] = nonce )

\* (variant: the window's last instant is refused)
SigPred_exclusive(c, dur, nonce) == dur < c.sig_valid_secs * MS_PER_SEC

SigPred(c, dur, nonce) == dur <= c.sig_valid_secs * MS_PER_SEC

\* Authority::auth_client_sig(key_text, uri, ts, nonce, sig, pred) at time
\* clock: the timestamp must parse, the signature must be the one over
\* (key, uri, timestamp, nonce), and pred must accept the time elapsed
\* since the timestamp (now - timestamp <= window; a Duration is never
\* negative).
auth_client_sig(c, clock, key_text, uri, ts_ms_str, nonce_str, sig_str) ==
    IF ~IsDecimal(ts_ms_str) THEN Err(<<"bad sig timestamp">>)
    ELSE IF sig_str # Sign(key_text, uri, ts_ms_str, nonce_str)
    THEN Err(<<"sig verify fail">>)
    ELSE LET ts  == DecimalValue(ts_ms_str)
             dur == IF clock > ts THEN clock - ts ELSE 0
         IN  IF SigPred(c, dur, nonce_str) THEN Ok(TRUE)
             ELSE Err(<<"sig expired">>)

(* ------------------------------------------------------------------ *)
(* Texts the environment uses                                          *)
(* ------------------------------------------------------------------ *)

WX == <<"w","x">>
ZZ == <<"z","z">>
S1 == <<"s","1">>
C1 == <<"c","1">>
U1 == <<"u","1">>
UC1 == <<"u",":","1">>

\* base64 of "0123456789ABCDEF": 16 bytes.
KEY16 == <<"M","D","E","y","M","z","Q","1","N","j","c","4","O","U","F","C","Q","0","R","F","R","g","=","=">>

\* Not base64.
KEYBADCHAR == <<"!","!","!","!">>

\* base64 of "ABC": 3 bytes.
KEY3 == <<"Q","U","J","D">>

\* base64 of "0123456789ABCDEFGH": 18 bytes.
KEY18 == <<"M","D","E","y","M","z","Q","1","N","j","c","4","O","U","F","C","Q","0","R","F","R","k","d","I">>

(* ------------------------------------------------------------------ *)
(* Configuration and the inputs of the environment                     *)
(* ------------------------------------------------------------------ *)

\* Config::app_map: appid -> application identity.
AppMap ==
    LET ids == { WX }
    IN  [ a \in ids |-> [appid |-> a, secret |-> S1] ]

\* Config::sig_valid_secs.
SigValidSecs == 1

\* The configurations WxLogin::new may be given: signatures required or
\* not.
Configs ==
    { [app_map |-> AppMap, auth_sig |-> b, sig_valid_secs |-> SigValidSecs]
        : b \in BOOLEAN }

\* One clock tick, in milliseconds.
TickMs == MS_PER_SEC

\* appid arguments of handle_login: the configured ones and an unknown one.
AppIdInputs == (DOMAIN AppMap) \cup { ZZ }

\* code arguments of handle_login.
Codes == { C1 }

\* The errors of the HTTP client: the request could not be sent or no
\* response arrived; the response arrived and its body could not be read
\* to the end; the body was read and is not the expected JSON.
SEND_ERROR == <<"error sending request">>
BODY_ERROR == <<"request or response body error">>
DECODE_ERROR == <<"error decoding response body">>

\* Outcomes of client.get(url).query(..).send().await: an error, or the
\* response (status and headers; the body is still to be read).
SendOutcomes == { Err(SEND_ERROR), Ok(<<>>) }

OpenIds == { U1, UC1 }

SessionKeyTexts == { KEY16, KEYBADCHAR, KEY3, KEY18 }

\* Outcomes of res.json::<Code2SessionResponse>().await, which reads the
\* body from the connection and then deserializes it.
JsonOutcomes ==
    { Err(BODY_ERROR), Err(DECODE_ERROR) }
    \cup { Ok([openid |-> o, session_key |-> k])
             : o \in OpenIds, k \in SessionKeyTexts }

Uris == { <<"/","a">>, <<"/","b">> }

(* ------------------------------------------------------------------ *)
(* WxLogin::handle_login                                               *)
(* ------------------------------------------------------------------ *)

\* (variant: the wrong message constant)
err_resp_auth_msg(status, code, e) ==
    [status |-> status, code |-> code, message |-> AUTH_FAIL_MSG, detail |-> e]

\* err_resp(status, code) applied to the error e: detail is e.to_string().
err_resp(status, code, e) ==
    [status |-> status, code |-> code, message |-> LOGIN_FAIL_MSG, detail |-> e]

\* (variant: an unknown appid reported as a server error)
handle_login_lookup_500(c, appid) ==
    IF appid \in DOMAIN c.app_map
    THEN Ok(c.app_map[appid])
    ELSE Err([status |-> 500, code |-> "appid-not-found",
              message |-> LOGIN_FAIL_MSG, detail |-> <<>>])

\* self.cfg.app_map.get(&appid).ok_or(WxLoginErr {..})
handle_login_lookup(c, appid) ==
    IF appid \in DOMAIN c.app_map
    THEN Ok(c.app_map[appid])
    ELSE Err([status |-> 401, code |-> "appid-not-found",
              message |-> LOGIN_FAIL_MSG, detail |-> <<>>])

\* The request sent to WX_JSCODE2SESSION_URL.
Code2SessionRequest(appid, secret, code) ==
    [appid |-> appid, secret |-> secret, js_code |-> code,
     grant_type |-> "authorization_code"]

\* client.get(url).query(..).send().await.map_err(err_resp(500, ..))
handle_login_send(outcome) ==
    IF outcome.ok THEN outcome
    ELSE Err(err_resp(500, "jscode2session-call-fail", outcome.err))

\* res.json::<Code2SessionResponse>().await.map_err(err_resp(401, ..))
handle_login_json(outcome) ==
    IF outcome.ok THEN outcome
    ELSE Err(err_resp(401, "jscode2session-resp-fail", outcome.err))

\* (variant: a key of the wrong length is let through)
decode_session_key_any_len(text) ==
    LET dec == from_text(text)
    IN  IF ~dec.ok
        THEN Err(err_resp(500, "session-key-invalid-base64", dec.err))
        ELSE Ok(dec.val)

\* BASE64.from_text(&session_key)..try_into::<[u8; 16]>(), both failures
\* mapped by err_resp(500, "session-key-invalid-base64").
decode_session_key(text) ==
    LET dec == from_text(text)
    IN  IF ~dec.ok
        THEN Err(err_resp(500, "session-key-invalid-base64", dec.err))
        ELSE IF Len(dec.val) # SESSION_KEY_LEN
        THEN Err(err_resp(500, "session-key-invalid-base64",
                          <<"unexpected key len: ">> \o ToDecimal(Len(dec.val))))
        ELSE Ok(dec.val)

\* (variant: the stoken comes from a cache of the last session issued)
encode_stoken_cached(appid, openid, sess_token) ==
    IF held # <<>> THEN held[1].stoken
    ELSE Join4(ST1, appid, openid, sess_token)

\* (variant: appid and openid in the wrong order)
encode_stoken_swapped(appid, openid, sess_token) ==
    Join4(ST1, openid, appid, sess_token)

\* The session token on the wire: ["ST1", appid, openid, sess_token].join(":")
encode_stoken(appid, openid, sess_token) == Join4(ST1, appid, openid, sess_token)

\* (variant: the client session is derived before the key length is
\* checked)
handle_login_session_eager(c, appid, resp) ==
    LET dec == from_text(resp.session_key)
    IN  IF ~dec.ok
        THEN Ran(Err(err_resp(500, "session-key-invalid-base64", dec.err)), <<>>)
        ELSE LET client_sess ==
                     make_client_session(c.app_map[appid], resp.openid, dec.val)
             IN  Ran(IF Len(dec.val) # SESSION_KEY_LEN
                     THEN decode_session_key(resp.session_key)
                     ELSE Ok([openid |-> resp.openid,
                              stoken |-> encode_stoken(appid, resp.openid,
                                                       client_sess.sess_token),
                              skey   |-> client_sess.sess_key]),
                     <<"make_client_session">>)

\* handle_login from the deserialized provider response on: decode the
\* key, derive the client session, build the result.
handle_login_session(c, appid, resp) ==
    LET key == decode_session_key(resp.session_key)
    IN  IF ~key.ok THEN Ran(key, <<>>)
        ELSE LET client_sess ==
                     make_client_session(c.app_map[appid], resp.openid, key.val)
             IN  Ran(Ok([openid |-> resp.openid,
                         stoken |-> encode_stoken(appid, resp.openid,
                                                  client_sess.sess_token),
                         skey   |-> client_sess.sess_key]),
                     <<"make_client_session">>)

\* handle_login(appid, code) run from its start to its end, the provider
\* answering send() with send_outcome and json() with json_outcome.
handle_login(c, appid, code, send_outcome, json_outcome) ==
    LET app == handle_login_lookup(c, appid)
    IN  IF ~app.ok THEN Ran(app, <<>>)
        ELSE LET sent == handle_login_send(send_outcome)
             IN  IF ~sent.ok THEN Ran(sent, <<"send">>)
                 ELSE LET resp == handle_login_json(json_outcome)
                      IN  IF ~resp.ok THEN Ran(resp, <<"send", "json">>)
                          ELSE LET d == handle_login_session(c, appid, resp.val)
                               IN  Ran(d.res, <<"send", "json">> \o d.calls)

(* ------------------------------------------------------------------ *)
(* WxLogin::authenticate                                               *)
(* ------------------------------------------------------------------ *)

\* (variant: the fields bound in the wrong order)
decode_stoken_swapped(stoken) ==
    LET t == NextTuple4(Split(stoken))
    IN  IF t = <<>> THEN Err(<<"bad stoken format">>)
        ELSE IF t[1] # ST1 THEN Err(<<"bad stoken tag:">> \o t[1])
        ELSE Ok(<< t[3], t[2], t[4] >>)

\* (variant: the tag is not checked)
decode_stoken_any_tag(stoken) ==
    LET t == NextTuple4(Split(stoken))
    IN  IF t = <<>> THEN Err(<<"bad stoken format">>)
        ELSE Ok(<< t[2], t[3], t[4] >>)

\* (variant: one error for every structural failure)
decode_stoken_one_error(stoken) ==
    LET t == NextTuple4(Split(stoken))
    IN  IF t = <<>> \/ t[1] # ST1 THEN Err(<<"bad stoken format">>)
        ELSE Ok(<< t[2], t[3], t[4] >>)

\* (variant: the tag is checked before the fields are counted)
decode_stoken_tag_first(stoken) ==
    LET f == Split(stoken)
    IN  IF f[1] # ST1 THEN Err(<<"bad stoken tag:">> \o f[1])
        ELSE IF Len(f) < 4 THEN Err(<<"bad stoken format">>)
        ELSE Ok(<< f[2], f[3], f[4] >>)

\* The session token decoder of authenticate:
\* stoken.split(":").next_tuple().ok_or("bad stoken format")?, then the
\* tag check.  Ok(<<appid, openid, token_str>>) or the error.
decode_stoken(stoken) ==
    LET t == NextTuple4(Split(stoken))
    IN  IF t = <<>> THEN Err(<<"bad stoken format">>)
        ELSE IF t[1] # ST1 THEN Err(<<"bad stoken tag:">> \o t[1])
        ELSE Ok(<< t[2], t[3], t[4] >>)

\* The signature token decoder of authenticate:
\* Ok(<<ts_ms_str, nonce_str, sig_str>>) or the error.
decode_sig(text) ==
    LET t == NextTuple4(Split(text))
    IN  IF t = <<>> THEN Err(<<"bad sig format">>)
        ELSE IF t[1] # SG1 THEN Err(<<"bad sig tag:">> \o t[1])
        ELSE Ok(<< t[2], t[3], t[4] >>)

\* (variant: a missing signature is skipped, not refused)
authenticate_sig_optional(c, clock, secret, uri, sig) ==
    IF ~sig.ok THEN RanAt(Ok(TRUE), <<"sig">>, <<>>)
    ELSE LET d == decode_sig(sig.val)
         IN  IF ~d.ok THEN RanAt(d, <<"sig">>, <<>>)
             ELSE RanAt(auth_client_sig(c, clock, to_text(secret.client_sess_key),
                                        uri, d.val[1], d.val[2], d.val[3]),
                        <<"sig", "auth_client_sig">>, <<clock>>)

\* (variant: the signature is verified before its tag is checked)
authenticate_sig_verify_first(c, clock, secret, uri, sig) ==
    IF ~sig.ok THEN RanAt(Err(sig.err), <<"sig">>, <<>>)
    ELSE LET t == NextTuple4(Split(sig.val))
         IN  IF t = <<>> THEN RanAt(Err(<<"bad sig format">>), <<"sig">>, <<>>)
             ELSE RanAt(IF t[1] # SG1 THEN Err(<<"bad sig tag:">> \o t[1])
                        ELSE auth_client_sig(c, clock,
                                 to_text(secret.client_sess_key),
                                 uri, t[2], t[3], t[4]),
                        <<"sig", "auth_client_sig">>, <<clock>>)

\* The signature branch of authenticate (if self.cfg.auth_sig { .. }),
\* entered once the session is verified; secret is the re-derived secret.
\* The calls made start with "sig", the examination of the argument (sig?).
authenticate_sig(c, clock, secret, uri, sig) ==
    IF ~sig.ok THEN RanAt(Err(sig.err), <<"sig">>, <<>>)
    ELSE LET d == decode_sig(sig.val)
         IN  IF ~d.ok THEN RanAt(d, <<"sig">>, <<>>)
             ELSE RanAt(auth_client_sig(c, clock, to_text(secret.client_sess_key),
                                        uri, d.val[1], d.val[2], d.val[3]),
                        <<"sig", "auth_client_sig">>, <<clock>>)

\* (variant: sig_authed stays as initialised)
login_info_unsigned(appid, openid, secret, sig_authed) ==
    Ok([appid |-> appid, openid |-> openid, secret |-> secret,
        sig_authed |-> FALSE])

\* Ok(WxLoginInfo::new(WxLoginInfoInner {..}))
login_info(appid, openid, secret, sig_authed) ==
    Ok([appid |-> appid, openid |-> openid, secret |-> secret,
        sig_authed |-> sig_authed])

\* (variant: a supplied signature is verified whatever the policy)
authenticate_sig_if_present(c, clock, stoken, uri, sig) ==
    LET d == decode_stoken(stoken)
    IN  IF ~d.ok THEN RanAt(d, <<>>, <<>>)
        ELSE IF d.val[1] \notin DOMAIN c.app_map
        THEN RanAt(Err(<<"appid not found">>), <<"app_map.get">>, <<>>)
        ELSE LET appid  == d.val[1]
                 openid == d.val[2]
                 sess   == auth_client_session(c.app_map[appid], openid, d.val[3])
             IN  IF ~sess.ok
                 THEN RanAt(sess, <<"app_map.get", "auth_client_session">>, <<>>)
                 ELSE IF c.auth_sig \/ sig.ok
                 THEN LET s == authenticate_sig(c, clock, sess.val, uri, sig)
                      IN  RanAt(IF s.res.ok
                                THEN login_info(appid, openid, sess.val,
                                                c.auth_sig)
                                ELSE s.res,
                                <<"app_map.get", "auth_client_session">>
                                    \o s.calls, s.clock)
                 ELSE RanAt(login_info(appid, openid, sess.val, FALSE),
                            <<"app_map.get", "auth_client_session">>, <<>>)

\* (variant: sig_authed records that a signature was supplied)
authenticate_sig_supplied(c, clock, stoken, uri, sig) ==
    LET d == decode_stoken(stoken)
    IN  IF ~d.ok THEN RanAt(d, <<>>, <<>>)
        ELSE IF d.val[1] \notin DOMAIN c.app_map
        THEN RanAt(Err(<<"appid not found">>), <<"app_map.get">>, <<>>)
        ELSE LET appid  == d.val[1]
                 openid == d.val[2]
                 sess   == auth_client_session(c.app_map[appid], openid, d.val[3])
             IN  IF ~sess.ok
                 THEN RanAt(sess, <<"app_map.get", "auth_client_session">>, <<>>)
                 ELSE IF c.auth_sig
                 THEN LET s == authenticate_sig(c, clock, sess.val, uri, sig)
                      IN  RanAt(IF s.res.ok
                                THEN login_info(appid, openid, sess.val, TRUE)
                                ELSE s.res,
                                <<"app_map.get", "auth_client_session">>
                                    \o s.calls, s.clock)
                 ELSE RanAt(login_info(appid, openid, sess.val, sig.ok),
                            <<"app_map.get", "auth_client_session">>, <<>>)

\* authenticate(stoken, uri, sig) under configuration c at time clock.
\* The calls made are, in order, "app_map.get" (the application lookup),
\* "auth_client_session", "sig" (the examination of the sig argument) and
\* "auth_client_sig".
authenticate(c, clock, stoken, uri, sig) ==
    LET d == decode_stoken(stoken)
    IN  IF ~d.ok THEN RanAt(d, <<>>, <<>>)
        ELSE IF d.val[1] \notin DOMAIN c.app_map
        THEN RanAt(Err(<<"appid not found">>), <<"app_map.get">>, <<>>)
        ELSE LET appid  == d.val[1]
                 openid == d.val[2]
                 sess   == auth_client_session(c.app_map[appid], openid, d.val[3])
             IN  IF ~sess.ok
                 THEN RanAt(sess, <<"app_map.get", "auth_client_session">>, <<>>)
                 ELSE IF c.auth_sig
                 THEN LET s == authenticate_sig(c, clock, sess.val, uri, sig)
                      IN  RanAt(IF s.res.ok
                                THEN login_info(appid, openid, sess.val, TRUE)
                                ELSE s.res,
                                <<"app_map.get", "auth_client_session">>
                                    \o s.calls, s.clock)
                 ELSE RanAt(login_info(appid, openid, sess.val, FALSE),
                            <<"app_map.get", "auth_client_session">>, <<>>)

(* ------------------------------------------------------------------ *)
(* Initial state                                                       *)
(* ------------------------------------------------------------------ *)

\* What handle_login returns for a login of user o, whenever it is run.
LoginOf(o) ==
    handle_login(cfg, WX, C1, Ok(<<>>),
                 Ok([openid |-> o, session_key |-> KEY16])).res

\* The session Authority issues for user U1 of application WX.
ProbeSession == make_client_session(AppMap[WX], U1, from_text(KEY16).val)

ProbeStokens ==
    { Join4(ST1, WX, U1, ProbeSession.sess_token),
      Join4(ST1, ZZ, U1, ProbeSession.sess_token) }

ProbeSigs ==
    { Err(<<"sig header missing">>),
      Ok(Join4(SG1, <<"0">>, <<"n","0">>,
               Sign(ProbeSession.sess_key, <<"/","a">>, <<"0">>, <<"n","0">>))) }

\* What authenticate returns for (s, /a, g) at clock 0, whenever it is run.
AuthOf(s, g) == authenticate(cfg, 0, s, <<"/","a">>, g).res

Init ==
    /\ cfg \in Configs
    /\ now = 0
    /\ inflight = EmptyBag
    /\ held = <<>>
    /\ last = [op |-> "none"]
    /\ pinned = <<>>
    /\ alone = [cfg   |-> cfg,
                login |-> [o \in OpenIds |-> LoginOf(o)],
                auth  |-> [a \in ProbeStokens \X ProbeSigs
                             |-> AuthOf(a[1], a[2])]]

\* A handle_login call has returned res, after the provider outcomes io
\* (of send, then of json) and the collaborator calls it made.
LoginReturn(call, io, res, calls) ==
    [op |-> "login", appid |-> call.appid, code |-> call.code, io |-> io,
     res |-> res, calls |-> calls]

\* What the client keeps of a successful login: its appid and the
\* WxLoginOk it received.
Session(appid, login_ok) ==
    [appid |-> appid, openid |-> login_ok.openid, stoken |-> login_ok.stoken,
     skey |-> login_ok.skey]

(* ------------------------------------------------------------------ *)
(* What a client may present to authenticate                           *)
(* ------------------------------------------------------------------ *)

NONCE == <<"n","1">>

\* The signature token on the wire.
encode_sig(ts_ms_str, nonce_str, sig_str) == Join4(SG1, ts_ms_str, nonce_str, sig_str)

\* The key text the client signs with: the skey of its session.
ClientKeyText == IF held = <<>> THEN <<"A">> ELSE held[1].skey

\* A signature token the client computes at timestamp ts for the URI /a.
SignedAt(ts) ==
    LET t == ToDecimal(ts)
    IN  encode_sig(t, NONCE, Sign(ClientKeyText, <<"/","a">>, t, NONCE))

SigTimes == { 0 }

SigInputs ==
    { Err(<<"sig header missing">>) }
    \cup { Ok(SignedAt(ts)) : ts \in SigTimes }
    \cup { Ok([SignedAt(0) EXCEPT ![3] = "2"]),
           Ok(SignedAt(0) \o <<COLON, "x">>),
           Ok(SG1 \o <<COLON, "0">>),
           Ok(encode_sig(<<"0">>, NONCE, <<"b","a","d">>)) }

StokenInputs ==
    ( IF held = <<>> THEN {}
      ELSE { held[1].stoken,
             [held[1].stoken EXCEPT ![3] = "2"],
             held[1].stoken \o <<COLON, "x">> } )
    \cup { ST1 \o <<COLON>> \o WX,
           ST1 \o <<COLON, COLON, COLON>>,
           Join4(ST1, ZZ, U1, <<"t">>),
           Join4(ST1, WX, U1, <<"b","a","d">>),
           <<"S","T","2">> \o <<COLON>> \o WX }

(* ------------------------------------------------------------------ *)
(* Actions                                                             *)
(* ------------------------------------------------------------------ *)

\* handle_login(appid, code) up to its first await: the application
\* lookup, then the request is sent.
LoginStart(appid, code) ==
    LET call == [appid |-> appid, code |-> code]
        app  == handle_login_lookup(cfg, appid)
    IN  IF ~app.ok
        THEN /\ last' = LoginReturn(call, <<>>, app, <<>>)
             /\ UNCHANGED << cfg, alone, now, inflight, held, pinned >>
        ELSE /\ BagCardinality(inflight) < MaxPending
             /\ inflight' = inflight (+) SetToBag({
                    [appid |-> appid, code |-> code, pc |-> "send",
                     req |-> [url |-> WX_JSCODE2SESSION_URL,
                              query |-> Code2SessionRequest(appid,
                                            app.val.secret, code)]] })
             /\ UNCHANGED << cfg, alone, now, held, last, pinned >>

\* send().await completes for a suspended call.
LoginSendDone(call, outcome) ==
    /\ call.pc = "send"
    /\ LET r == handle_login_send(outcome)
       IN  IF ~r.ok
           THEN /\ last' = LoginReturn(call, <<outcome>>, r, <<"send">>)
                /\ inflight' = inflight (-) SetToBag({call})
           ELSE /\ inflight' = (inflight (-) SetToBag({call}))
                                  (+) SetToBag({[call EXCEPT !.pc = "json"]})
                /\ UNCHANGED last
    /\ UNCHANGED << cfg, alone, now, held, pinned >>

\* json().await completes for a suspended call, and the call runs to its
\* end.
LoginJsonDone(call, outcome) ==
    /\ call.pc = "json"
    /\ LET r == handle_login_json(outcome)
       IN  IF ~r.ok
           THEN /\ last' = LoginReturn(call, <<Ok(<<>>), outcome>>, r,
                                        <<"send", "json">>)
                /\ UNCHANGED held
           ELSE LET d == handle_login_session(cfg, call.appid, r.val)
                IN  /\ last' = LoginReturn(call, <<Ok(<<>>), outcome>>, d.res,
                                           <<"send", "json">> \o d.calls)
                    /\ held' = IF d.res.ok
                               THEN << Session(call.appid, d.res.val) >>
                               ELSE held
    /\ inflight' = inflight (-) SetToBag({call})
    /\ UNCHANGED << cfg, alone, now, pinned >>

\* What is remembered of a successful authenticate: its stoken and the
\* (appid, openid, sig_authed) of its WxLoginInfo.
Pin(stoken, info) ==
    [stoken |-> stoken, appid |-> info.appid, openid |-> info.openid,
     sig_authed |-> info.sig_authed]

\* The call that returned last was a successful authenticate of these
\* arguments.
JustAuthenticated(stoken, uri, sig) ==
    /\ last.op = "auth" /\ last.res.ok
    /\ last.stoken = stoken /\ last.uri = uri /\ last.sig = sig

\* authenticate(stoken, uri, sig); again tells that the arguments are
\* those of a successful authenticate that returned just before.
Authenticate(stoken, uri, sig) ==
    /\ LET r == authenticate(cfg, now, stoken, uri, sig)
       IN  /\ last' = [op |-> "auth", stoken |-> stoken, uri |-> uri,
                       sig |-> sig, clock |-> r.clock, res |-> r.res,
                       calls |-> r.calls,
                       again |-> JustAuthenticated(stoken, uri, sig)]
           /\ pinned' = IF pinned = <<>> /\ ~cfg.auth_sig /\ r.res.ok
                         THEN << Pin(stoken, r.res.val) >>
                         ELSE pinned
    /\ UNCHANGED << cfg, alone, now, inflight, held >>

\* Time passes.
Tick ==
    /\ now < MaxTicks * TickMs
    /\ now' = now + TickMs
    /\ UNCHANGED << cfg, alone, inflight, held, last, pinned >>

Next ==
    \/ \E appid \in AppIdInputs, code \in Codes : LoginStart(appid, code)
    \/ \E call \in BagToSet(inflight), o \in SendOutcomes :
           LoginSendDone(call, o)
    \/ \E call \in BagToSet(inflight), o \in JsonOutcomes :
           LoginJsonDone(call, o)
    \/ \E stoken \in StokenInputs, uri \in Uris, sig \in SigInputs :
           Authenticate(stoken, uri, sig)
    \/ Tick

Spec == Init /\ [][Next]_vars

(* ------------------------------------------------------------------ *)
(* Properties                                                          *)
(* ------------------------------------------------------------------ *)

\* The call that returned last is a handle_login / an authenticate.
LoginReturned == last.op = "login"

AuthReturned == last.op = "auth"

Configured(appid) == appid \in DOMAIN cfg.app_map

Range(q) == { q[i] : i \in 1..Len(q) }

\* C1: handle_login with an appid that is no key of the application map
\* returns Err with status 401 and code "appid-not-found", whatever the
\* code argument.
C1_UnknownAppid ==
    (LoginReturned /\ ~Configured(last.appid))
        => /\ ~last.res.ok
           /\ last.res.err.status = 401
           /\ last.res.err.code = "appid-not-found"

C1_Witness == LoginReturned /\ last.appid = ZZ /\ ~last.res.ok

\* The provider outcomes of the login that returned last.
SendFailed == Len(last.io) >= 1 /\ ~last.io[1].ok

JsonFailed == Len(last.io) = 2 /\ ~last.io[2].ok

LoginErrIs(status, code) ==
    ~last.res.ok /\ last.res.err.status = status /\ last.res.err.code = code

\* The exchange failed on the network: in send(), or while json() read
\* the body.
TransportFailed == SendFailed \/ (JsonFailed /\ last.io[2].err = BODY_ERROR)

\* The exchange brought a body that does not deserialize.
ShapeFailed == JsonFailed /\ last.io[2].err = DECODE_ERROR

\* C2: for a configured appid, a transport failure of the exchange gives
\* Err 500 "jscode2session-call-fail", a response body that does not
\* deserialize gives Err 401 "jscode2session-resp-fail", and neither
\* status/code pair is returned for the other failure.
C2_ExchangeFailures ==
    (LoginReturned /\ Configured(last.appid))
        => /\ TransportFailed => LoginErrIs(500, "jscode2session-call-fail")
           /\ ShapeFailed => LoginErrIs(401, "jscode2session-resp-fail")

\* The provider answered with a response that deserialized.
ProviderAnswered == Len(last.io) = 2 /\ last.io[2].ok

\* A session key text that is not base64, or not of 16 bytes.
BadKeyText(text) ==
    LET dec == from_text(text)
    IN  ~dec.ok \/ Len(dec.val) # SESSION_KEY_LEN

\* C3: when the provider's session_key is not valid base64 or does not
\* decode to 16 bytes, handle_login returns Err 500
\* "session-key-invalid-base64" in both cases, and derives no client
\* session and returns no stoken.
C3_BadSessionKey ==
    (LoginReturned /\ ProviderAnswered
        /\ BadKeyText(last.io[2].val.session_key))
        => /\ LoginErrIs(500, "session-key-invalid-base64")
           /\ "make_client_session" \notin Range(last.calls)

C3_Witness ==
    /\ LoginReturned /\ ProviderAnswered
    /\ from_text(last.io[2].val.session_key).ok
    /\ Len(from_text(last.io[2].val.session_key).val) = 18
    /\ ~last.res.ok

LoginErrCodes ==
    { "appid-not-found", "jscode2session-call-fail",
      "jscode2session-resp-fail", "session-key-invalid-base64" }

\* C4: every Err of handle_login carries the one fixed message, a status
\* of 401 or 500 and one of the four codes.
C4_LoginErrShape ==
    (LoginReturned /\ ~last.res.ok)
        => /\ last.res.err.message = LOGIN_FAIL_MSG
           /\ last.res.err.status \in {401, 500}
           /\ last.res.err.code \in LoginErrCodes

C4_Witness ==
    /\ LoginReturned /\ ~last.res.ok
    /\ last.res.err.status = 500
    /\ last.res.err.detail # <<>>

\* The session-token component Authority issued in the login that
\* returned last.
IssuedToken ==
    make_client_session(cfg.app_map[last.appid], last.io[2].val.openid,
                        from_text(last.io[2].val.session_key).val).sess_token

\* The stoken of the login that returned last decodes to ST1 and the
\* original (appid, openid, token component).
StokenRoundTrips ==
    decode_stoken(last.res.val.stoken)
        = Ok(<< last.appid, last.io[2].val.openid, IssuedToken >>)

\* C5 as claimed: every stoken of a successful handle_login decodes to
\* the original (appid, openid, token), for every openid of the provider.
C5_Claimed == (LoginReturned /\ last.res.ok) => StokenRoundTrips

\* C5, amended: every stoken of a successful handle_login whose appid and
\* openid hold no ":" decodes to tag ST1 and the original (appid, openid,
\* token).
C5_RoundTrip ==
    (LoginReturned /\ last.res.ok
        /\ NoColon(last.appid) /\ NoColon(last.io[2].val.openid))
        => StokenRoundTrips

C5_Witness ==
    LoginReturned /\ last.res.ok /\ NoColon(last.io[2].val.openid)

\* authenticate was called with the stoken of the client's session.
AuthOfHeld == AuthReturned /\ held # <<>> /\ last.stoken = held[1].stoken

\* The authenticate that returned last succeeded without signature, for
\* the application and the user of the client's session.
AuthedAsHeld ==
    /\ last.res.ok
    /\ last.res.val.sig_authed = FALSE
    /\ last.res.val.appid = held[1].appid
    /\ last.res.val.openid = held[1].openid

\* C6 as claimed: authenticate of any stoken handle_login returned
\* succeeds when signatures are not required.
C6_Claimed == (AuthOfHeld /\ ~cfg.auth_sig) => AuthedAsHeld

\* C6, amended: when signatures are not required, authenticate of a
\* stoken handle_login returned for an appid and an openid that hold no
\* ":" succeeds for any uri, with sig_authed false and the appid and
\* openid of the login.
C6_LoginThenAuth ==
    (AuthOfHeld /\ ~cfg.auth_sig
        /\ NoColon(held[1].appid) /\ NoColon(held[1].openid))
        => AuthedAsHeld

C6_Witness ==
    /\ AuthOfHeld /\ ~cfg.auth_sig
    /\ NoColon(held[1].openid)
    /\ last.uri = <<"/","b">>
    /\ last.res.ok

\* C7: authenticate of a stoken whose first field is not "ST1" returns
\* Err without any Authority operation.
C7_TamperedTag ==
    (AuthReturned /\ Split(last.stoken)[1] # ST1)
        => ~last.res.ok /\ last.calls = <<>>

C7_Witness ==
    /\ AuthReturned /\ held # <<>>
    /\ last.stoken = [held[1].stoken EXCEPT ![3] = "2"]
    /\ Len(Split(last.stoken)) = 4
    /\ ~last.res.ok

\* The timestamp of the signature token of the authenticate that returned
\* last (when it decodes and is a number).
SigTs == DecimalValue(decode_sig(last.sig.val).val[1])

SigWindowMs == cfg.sig_valid_secs * MS_PER_SEC

\* The signature token is the one the client of the held session computes
\* for the request's URI.
WellSigned ==
    /\ AuthOfHeld
    /\ last.sig.ok /\ decode_sig(last.sig.val).ok
    /\ IsDecimal(decode_sig(last.sig.val).val[1])
    /\ decode_sig(last.sig.val).val[3]
          = Sign(held[1].skey, last.uri, decode_sig(last.sig.val).val[1],
                 decode_sig(last.sig.val).val[2])

\* C8: with signatures required, authenticate returns Ok only when the
\* time from the signature's timestamp to now is at most sig_valid_secs,
\* and a well-signed request whose elapsed time equals the window is
\* accepted.
C8_ReplayWindow ==
    (AuthReturned /\ cfg.auth_sig)
        => /\ last.res.ok
                => /\ last.clock # <<>>
                   /\ last.clock[1] - SigTs <= SigWindowMs
           /\ (last.clock # <<>> /\ WellSigned
                 /\ last.clock[1] - SigTs = SigWindowMs)
                => last.res.ok

C8_Witness ==
    /\ AuthReturned /\ cfg.auth_sig /\ last.res.ok
    /\ last.clock[1] - SigTs = SigWindowMs

\* The stoken decodes, names a configured application and passes
\* Authority::auth_client_session.
SessionVerifies(stoken) ==
    LET d == decode_stoken(stoken)
    IN  /\ d.ok
        /\ Configured(d.val[1])
        /\ auth_client_session(cfg.app_map[d.val[1]], d.val[2], d.val[3]).ok

\* C9: with signatures required, authenticate of a valid session token and
\* sig = Err(e) returns Err(e), and Authority::auth_client_sig is not
\* called.
C9_MissingSig ==
    (AuthReturned /\ cfg.auth_sig /\ SessionVerifies(last.stoken)
        /\ ~last.sig.ok)
        => /\ ~last.res.ok
           /\ last.res.err = last.sig.err
           /\ "auth_client_sig" \notin Range(last.calls)

C9_Witness ==
    AuthReturned /\ cfg.auth_sig /\ SessionVerifies(last.stoken) /\ ~last.sig.ok

\* C10 as claimed: any two failing authenticate calls return the same
\* error.
C10_Claimed ==
    [][ (AuthReturned /\ ~last.res.ok /\ last'.op = "auth" /\ ~last'.res.ok)
            => last'.res.err = last.res.err ]_vars

\* The error of the first check that fails for the arguments of the
\* authenticate that returned last.
FirstFailure ==
    LET f == Split(last.stoken)
    IN  IF Len(f) < 4 THEN <<"bad stoken format">>
        ELSE IF f[1] # ST1 THEN <<"bad stoken tag:">> \o f[1]
        ELSE IF ~Configured(f[2]) THEN <<"appid not found">>
        ELSE LET sess == auth_client_session(cfg.app_map[f[2]], f[3], f[4])
             IN  IF ~sess.ok THEN sess.err
                 ELSE IF ~last.sig.ok THEN last.sig.err
                 ELSE LET g == Split(last.sig.val)
                      IN  IF Len(g) < 4 THEN <<"bad sig format">>
                          ELSE IF g[1] # SG1 THEN <<"bad sig tag:">> \o g[1]
                          ELSE auth_client_sig(cfg, last.clock[1],
                                   to_text(sess.val.client_sess_key),
                                   last.uri, g[2], g[3], g[4]).err

\* C10, amended: a failing authenticate returns one opaque error value
\* (no status or code), whose text is that of the first check that
\* failed: "bad stoken format", "bad stoken tag:<tag>", "appid not
\* found", Authority's session error, the upstream signature error,
\* "bad sig format", "bad sig tag:<tag>" or Authority's signature error.
C10_ErrorNamesCause ==
    (AuthReturned /\ ~last.res.ok) => last.res.err = FirstFailure

C10_Witness ==
    AuthReturned /\ ~last.res.ok /\ last.res.err = <<"appid not found">>

\* The number of colon-delimited fields of a text.
FieldCount(text) == Len(Split(text))

\* With signatures required, the authenticate that returned last got as
\* far as decoding its signature argument.
SigDecoded ==
    AuthReturned /\ cfg.auth_sig /\ SessionVerifies(last.stoken) /\ last.sig.ok

\* C11: a session token or a signature token that has not exactly four
\* colon-delimited fields, fewer or more, is rejected with "bad stoken
\* format" / "bad sig format"; authenticate never returns Ok for a
\* stoken or sig with a fifth field.
C11_ExactlyFourFields ==
    /\ (AuthReturned /\ FieldCount(last.stoken) # 4)
          => (~last.res.ok /\ last.res.err = <<"bad stoken format">>)
    /\ (SigDecoded /\ FieldCount(last.sig.val) # 4)
          => (~last.res.ok /\ last.res.err = <<"bad sig format">>)

\* One of the three fields after the tag is empty.
HasEmptyField(text) ==
    LET f == Split(text)
    IN  Len(f) >= 4 /\ \E i \in 2..4 : f[i] = <<>>

\* C12: a session token or a signature token with an empty field after
\* the tag (as in "ST1:::") is rejected as a structural parse failure,
\* before any application lookup or Authority call, and not as "appid
\* not found".
C12_NonEmptyFields ==
    /\ (AuthReturned /\ HasEmptyField(last.stoken))
          => /\ ~last.res.ok
             /\ last.res.err = <<"bad stoken format">>
             /\ last.calls = <<>>
    /\ (SigDecoded /\ HasEmptyField(last.sig.val))
          => /\ ~last.res.ok
             /\ last.res.err = <<"bad sig format">>
             /\ "auth_client_sig" \notin Range(last.calls)

\* The (appid, openid, sig_authed) of a successful authenticate.
Triple(info) == << info.appid, info.openid, info.sig_authed >>

\* The authenticate that returned last presented, without signature
\* required, the stoken of an earlier successful authenticate.
AuthOfPinned ==
    AuthReturned /\ ~cfg.auth_sig /\ pinned # <<>>
        /\ last.stoken = pinned[1].stoken

\* C13: with signatures not required, every authenticate of a stoken that
\* authenticated before succeeds, with the same (appid, openid,
\* sig_authed), whatever calls happened in between.
C13_Idempotent ==
    AuthOfPinned
        => /\ last.res.ok
           /\ Triple(last.res.val)
                 = << pinned[1].appid, pinned[1].openid, pinned[1].sig_authed >>

\* A repeated presentation, after time has passed, with a signature
\* argument the first presentation (made without one) did not have.
C13_Witness ==
    AuthOfPinned /\ last.res.ok /\ now > 0 /\ last.sig.ok

\* The steps of authenticate, in the order of the code.
AuthSteps == <<"app_map.get", "auth_client_session", "sig", "auth_client_sig">>

\* The steps the arguments of the authenticate that returned last allow:
\* each step only after the one before it succeeded.
StepsRun ==
    LET f == Split(last.stoken)
    IN  IF Len(f) < 4 \/ f[1] # ST1 THEN <<>>
        ELSE IF ~Configured(f[2]) THEN SubSeq(AuthSteps, 1, 1)
        ELSE IF ~auth_client_session(cfg.app_map[f[2]], f[3], f[4]).ok
                  \/ ~cfg.auth_sig
        THEN SubSeq(AuthSteps, 1, 2)
        ELSE IF ~last.sig.ok THEN SubSeq(AuthSteps, 1, 3)
        ELSE LET g == Split(last.sig.val)
             IN  IF Len(g) < 4 \/ g[1] # SG1 THEN SubSeq(AuthSteps, 1, 3)
                 ELSE AuthSteps

\* C14: an authenticate call takes its steps in the order parse,
\* application lookup, session verification, signature examination,
\* signature verification, each only after the one before it succeeded
\* and none twice; a failing step ends the call with that step's error,
\* and Ok is returned only after the last step of the policy.
C14_StepOrder ==
    AuthReturned
        => /\ last.calls = StepsRun
           /\ ~last.res.ok => last.res.err = FirstFailure
           /\ last.res.ok
                 => last.calls = SubSeq(AuthSteps, 1,
                                        IF cfg.auth_sig THEN 4 ELSE 2)

\* A call that ended at the signature decoding, after the session was
\* verified.
C14_Witness ==
    /\ AuthReturned /\ ~last.res.ok /\ last.sig.ok
    /\ last.calls = SubSeq(AuthSteps, 1, 3)

\* C15: a first field that is not the expected literal is reported, for an
\* input of at least four fields, as "bad stoken tag:<tag>" (resp. "bad
\* sig tag:<tag>"), and an input of fewer than four fields is reported as
\* "bad stoken format" (resp. "bad sig format") whatever its first field.
C15_TagOrFormat ==
    /\ AuthReturned
          => LET f == Split(last.stoken)
             IN  /\ (Len(f) >= 4 /\ f[1] # ST1)
                       => /\ ~last.res.ok
                          /\ last.res.err = <<"bad stoken tag:">> \o f[1]
                 /\ Len(f) < 4
                       => /\ ~last.res.ok
                          /\ last.res.err = <<"bad stoken format">>
    /\ SigDecoded
          => LET g == Split(last.sig.val)
             IN  /\ (Len(g) >= 4 /\ g[1] # SG1)
                       => /\ ~last.res.ok
                          /\ last.res.err = <<"bad sig tag:">> \o g[1]
                 /\ Len(g) < 4
                       => /\ ~last.res.ok
                          /\ last.res.err = <<"bad sig format">>

\* An input of fewer than four fields whose first field is not "ST1".
C15_Witness ==
    /\ AuthReturned
    /\ FieldCount(last.stoken) < 4 /\ Split(last.stoken)[1] # ST1
    /\ last.res.err = <<"bad stoken format">>

\* C16: in every Ok of authenticate, sig_authed equals the signature-
\* required flag of the configuration; when it is true, the sig argument
\* of that call was Ok, decoded with tag "SG1", and
\* Authority::auth_client_sig was called and succeeded.
C16_SigAuthedIsPolicy ==
    (AuthReturned /\ last.res.ok)
        => /\ last.res.val.sig_authed = cfg.auth_sig
           /\ last.res.val.sig_authed
                 => /\ last.sig.ok
                    /\ FieldCount(last.sig.val) >= 4
                    /\ Split(last.sig.val)[1] = SG1
                    /\ "auth_client_sig" \in Range(last.calls)
                    /\ auth_client_sig(cfg, last.clock[1],
                           to_text(last.res.val.secret.client_sess_key),
                           last.uri, Split(last.sig.val)[2],
                           Split(last.sig.val)[3], Split(last.sig.val)[4]).ok

C16_Witness == AuthReturned /\ last.res.ok /\ last.res.val.sig_authed

\* C17: with signatures not required, the result of authenticate is the
\* one the same stoken and URI give with any other sig argument (an Err,
\* a malformed, a stale or a valid signature), and the sig argument is
\* not examined nor Authority::auth_client_sig called.
C17_SigIgnored ==
    (AuthReturned /\ ~cfg.auth_sig)
        => /\ "sig" \notin Range(last.calls)
           /\ "auth_client_sig" \notin Range(last.calls)
           /\ \A g \in SigInputs :
                 authenticate(cfg, now, last.stoken, last.uri, g).res
                     = last.res

\* A call that succeeded although its signature does not decode.
C17_Witness ==
    /\ AuthReturned /\ ~cfg.auth_sig /\ last.res.ok
    /\ last.sig.ok /\ FieldCount(last.sig.val) < 4

\* C18: with signatures required, presenting again the (stoken, uri,
\* signature token) of an authenticate that just succeeded reaches the
\* signature verification and succeeds whenever the time elapsed since
\* the timestamp is within the validity window: the nonce is not
\* remembered.
C18_ReplayAccepted ==
    (AuthReturned /\ cfg.auth_sig /\ last.again)
        => /\ last.clock # <<>>
           /\ last.clock[1] - SigTs <= SigWindowMs => last.res.ok

\* An accepted replay, made after the timestamp of the signature.
C18_Witness ==
    /\ AuthReturned /\ cfg.auth_sig /\ last.again /\ last.res.ok
    /\ last.clock[1] > SigTs

\* The handle_login that returned last, run alone with its arguments and
\* its provider outcomes.
LoginAlone ==
    handle_login(cfg, last.appid, last.code,
                 IF Len(last.io) >= 1 THEN last.io[1] ELSE Ok(<<>>),
                 IF Len(last.io) = 2 THEN last.io[2] ELSE Err(BODY_ERROR))

\* The authenticate that returned last, run alone with its arguments and
\* the clock it read.
AuthAlone ==
    authenticate(cfg, IF last.clock = <<>> THEN 0 ELSE last.clock[1],
                 last.stoken, last.uri, last.sig)

Times(step, calls) == Cardinality({ i \in 1..Len(calls) : calls[i] = step })

\* C20: a handle_login call sends at most one request to the provider and
\* sends none for an appid that is not configured; it calls
\* Authority::make_client_session only after send() succeeded, the
\* response deserialized and the session key decoded to 16 bytes.
C20_OneExchange ==
    /\ \A call \in BagToSet(inflight) : Configured(call.appid)
    /\ LoginReturned
          => /\ Times("send", last.calls) <= 1
             /\ Times("json", last.calls) <= 1
             /\ Len(last.io) = Times("send", last.calls)
                                  + Times("json", last.calls)
             /\ ~Configured(last.appid) => last.calls = <<>>
             /\ "make_client_session" \in Range(last.calls)
                   => /\ last.calls = <<"send", "json", "make_client_session">>
                      /\ last.io[1].ok /\ last.io[2].ok
                      /\ ~BadKeyText(last.io[2].val.session_key)

C20_Witness ==
    /\ LoginReturned /\ last.res.ok
    /\ "make_client_session" \in Range(last.calls)

====
